---- MODULE Spec2Model ----
(***************************************************************************)
(* Model of the InvenTree presentation helpers:                            *)
(*   - templates/js/model_renderers.js : renderCompany, renderStockItem,   *)
(*     renderStockLocation, renderPart, renderPartCategory                 *)
(*   - the PageDetail React component (page header)                        *)
(*                                                                         *)
(* JavaScript values are records [t, s]: t is the type tag and s the       *)
(* payload (the characters of a string, the items of an array).  Strings   *)
(* are sequences of one-character strings, so that template literals,      *)
(* truthiness tests and ?? are computed as JavaScript computes them.       *)
(***************************************************************************)
EXTENDS Integers, Sequences, FiniteSets

VARIABLES
    data,   \* the record object handed to the renderers (by reference)
    arg,    \* the value of that record when the caller built it
    fn,     \* the renderer called last ("none" before the first call)
    ret,    \* the value returned by the last call
    first,  \* the first call made on this record: [fn, ret]
    left,   \* calls the caller still makes on this record
    props,  \* the HeaderSpec handed to PageDetail
    out     \* the element tree PageDetail returned (NotRendered before)

vars == <<data, arg, fn, ret, first, left, props, out>>


-----------------------------------------------------------------------------
(* Bounds *)

\* total number of characters over the string fields of one record
MaxChars == 2
\* the same, for the records of the repeated-call specification
MaxPureChars == 1
\* calls made on one record in the repeated-call specification
MaxCalls == 3
\* longest breadcrumb trail / action list handed to PageDetail
MaxCrumbs == 2
MaxActions == 2

-----------------------------------------------------------------------------
(* JavaScript values *)

Undefined == [t |-> "undefined", s |-> <<>>]
Null == [t |-> "null", s |-> <<>>]
False == [t |-> "false", s |-> <<>>]
True == [t |-> "true", s |-> <<>>]
Str(chars) == [t |-> "string", s |-> chars]
Arr(items) == [t |-> "array", s |-> items]

\* ToBoolean, as used by `if (x)`, `!x` and `x && y`
Truthy(v) ==
    CASE v.t = "undefined" -> FALSE
      [] v.t = "null" -> FALSE
      [] v.t = "false" -> FALSE
      [] v.t = "string" -> v.s /= <<>>
      [] OTHER -> TRUE

\* ToString, as applied by ${...} in a template literal
ToString(v) ==
    CASE v.t = "undefined" -> <<"u","n","d","e","f","i","n","e","d">>
      [] v.t = "null" -> <<"n","u","l","l">>
      [] OTHER -> v.s

\* a ?? b
Nullish(a, b) == IF a.t \in {"undefined", "null"} THEN b ELSE a

\* a && b
And(a, b) == IF Truthy(a) THEN b ELSE a

-----------------------------------------------------------------------------
(* The fixed text of the template literals *)

SpanOpen == <<"<","s","p","a","n",">">>
SpanClose == <<"<","/","s","p","a","n",">">>
Dash == <<" ","-"," ">>
ItalicOpen == <<"<","i",">">>
ItalicClose == <<"<","/","i",">">>
PathOpen == <<"<","p",">","<","s","m","a","l","l",">">>
PathClose == <<"<","/","s","m","a","l","l",">","<","/","p",">">>
ImgOpen == <<"<","i","m","g"," ","s","r","c","=","'">>
ImgClose == <<"'"," ","c","l","a","s","s","=","'","s","e","l","e","c","t","2","-",
              "t","h","u","m","b","n","a","i","l","'",">">>
Space1 == <<" ">>
BlankImage == <<"/","s","t","a","t","i","c","/","i","m","g","/",
                "b","l","a","n","k","_","i","m","a","g","e",".","p","n","g">>

-----------------------------------------------------------------------------
(* The renderers *)

FieldNames == {"name", "full_name", "description", "pathstring", "image"}

renderCompany(name, d, parameters, options) ==
    Str(SpanOpen \o ToString(d.name) \o SpanClose
        \o Dash \o ItalicOpen \o ToString(d.description) \o ItalicClose)

\* the body filled in with the thumbnail of the record
renderStockItemThumbnail(name, d, parameters, options) ==
    Str(ImgOpen \o ToString(d.image) \o ImgClose)

renderStockItem(name, d, parameters, options) == Undefined

\* `else if (data.pathstring)`: the path line only without a description
renderStockLocationElseIf(name, d, parameters, options) ==
    LET html0 == SpanOpen \o ToString(d.name) \o SpanClose
        html1 == IF Truthy(d.description)
                 THEN html0 \o Dash \o ItalicOpen \o ToString(d.description) \o ItalicClose
                 ELSE IF Truthy(d.pathstring)
                 THEN html0 \o PathOpen \o ToString(d.pathstring) \o PathClose
                 ELSE html0
    IN  Str(html1)

renderStockLocation(name, d, parameters, options) ==
    LET html0 == SpanOpen \o ToString(d.name) \o SpanClose
        html1 == IF Truthy(d.description)
                 THEN html0 \o Dash \o ItalicOpen \o ToString(d.description) \o ItalicClose
                 ELSE html0
        html2 == IF Truthy(d.pathstring)
                 THEN html1 \o PathOpen \o ToString(d.pathstring) \o PathClose
                 ELSE html1
    IN  Str(html2)

\* `data.full_name || data.name`: an empty full_name gives way to name
renderPartOrName(name, d, parameters, options) ==
    LET image == IF ~Truthy(d.image) THEN Str(BlankImage) ELSE d.image
        html0 == ImgOpen \o ToString(image) \o ImgClose
        html1 == html0 \o Space1 \o SpanOpen
                 \o ToString(IF Truthy(d.full_name) THEN d.full_name ELSE d.name)
                 \o SpanClose
        html2 == IF Truthy(d.description)
                 THEN html1 \o Dash \o ItalicOpen \o ToString(d.description) \o ItalicClose
                 ELSE html1
    IN  Str(html2)

\* `data.image ?? placeholder`: an empty image is kept as the src
renderPartNullishImage(name, d, parameters, options) ==
    LET image == Nullish(d.image, Str(BlankImage))
        html0 == ImgOpen \o ToString(image) \o ImgClose
        html1 == html0 \o Space1 \o SpanOpen
                 \o ToString(Nullish(d.full_name, d.name)) \o SpanClose
        html2 == IF Truthy(d.description)
                 THEN html1 \o Dash \o ItalicOpen \o ToString(d.description) \o ItalicClose
                 ELSE html1
    IN  Str(html2)

renderPart(name, d, parameters, options) ==
    LET image == IF ~Truthy(d.image) THEN Str(BlankImage) ELSE d.image
        html0 == ImgOpen \o ToString(image) \o ImgClose
        html1 == html0 \o Space1 \o SpanOpen
                 \o ToString(Nullish(d.full_name, d.name)) \o SpanClose
        html2 == IF Truthy(d.description)
                 THEN html1 \o Dash \o ItalicOpen \o ToString(d.description) \o ItalicClose
                 ELSE html1
    IN  Str(html2)

\* the category rendered without its path line
renderPartCategoryNoPath(name, d, parameters, options) ==
    LET html0 == SpanOpen \o ToString(d.name) \o SpanClose
        html1 == IF Truthy(d.description)
                 THEN html0 \o Dash \o ItalicOpen \o ToString(d.description) \o ItalicClose
                 ELSE html0
    IN  Str(html1)

renderPartCategory(name, d, parameters, options) ==
    LET html0 == SpanOpen \o ToString(d.name) \o SpanClose
        html1 == IF Truthy(d.description)
                 THEN html0 \o Dash \o ItalicOpen \o ToString(d.description) \o ItalicClose
                 ELSE html0
        html2 == IF Truthy(d.pathstring)
                 THEN html1 \o PathOpen \o ToString(d.pathstring) \o PathClose
                 ELSE html1
    IN  Str(html2)

-----------------------------------------------------------------------------
(* Inputs *)

Alphabet == {"a", "<", ">", "&", "'", "\""}

StringsUpTo(n) == UNION {[1..k -> Alphabet] : k \in 0..n}

\* what a field of the JSON data can hold: nothing, null, or a string
ValuesWithin(b) == {Undefined, Null} \cup {Str(s) : s \in StringsUpTo(b)}

\* the records of each model; a field the model lacks reads as undefined
CompanyRec(n, d) ==
    [name |-> n, full_name |-> Undefined, description |-> d,
     pathstring |-> Undefined, image |-> Undefined]
LocationRec(n, d, p) ==
    [name |-> n, full_name |-> Undefined, description |-> d,
     pathstring |-> p, image |-> Undefined]
PartRec(n, f, d, i) ==
    [name |-> n, full_name |-> f, description |-> d,
     pathstring |-> Undefined, image |-> i]

\* the records holding at most b characters in all
IsInput(d, b) ==
    \E n \in ValuesWithin(b) :
    \E x \in ValuesWithin(b - Len(n.s)) :
    \E y \in ValuesWithin(b - Len(n.s) - Len(x.s)) :
    \E z \in ValuesWithin(b - Len(n.s) - Len(x.s) - Len(y.s)) :
        \/ d = PartRec(n, x, y, z)
        \/ d = LocationRec(n, x, y) /\ z = Undefined

\* the records of the repeated-call specification
IsPureInput(d, b) ==
    \E n \in ValuesWithin(b) :
    \E x \in ValuesWithin(b - Len(n.s)) :
    \E y \in ValuesWithin(b - Len(n.s) - Len(x.s)) :
        \/ d = CompanyRec(n, x) /\ y = Undefined
        \/ d = PartRec(n, Undefined, x, y)

Names == {"part", "location"}
Parameters == {Undefined, Arr(<<>>)}
Options == {Undefined, Arr(<<>>)}

NoRecord == [f \in FieldNames |-> Undefined]
NoCall == [fn |-> "none", ret |-> Undefined]
NoProps == [title |-> Undefined, subtitle |-> Undefined, imageUrl |-> Undefined,
            detail |-> Undefined, breadcrumbs |-> Undefined, actions |-> Undefined]
NotRendered == [t |-> "element", s |-> <<>>, tag |-> "none", prop |-> "", kids |-> <<>>]

-----------------------------------------------------------------------------
(* PageDetail *)

\* a React element: its component, its distinguishing props, a string or
\* list prop (s) and its rendered children
Text(chars) ==
    [t |-> "element", s |-> chars, tag |-> "#text", prop |-> "", kids |-> <<>>]

\* what React renders of a list of children: undefined, null, booleans and
\* the empty string render nothing, a string renders as text, an array is
\* flattened
RECURSIVE Children(_)
Children(cs) ==
    IF cs = <<>> THEN <<>>
    ELSE LET c == Head(cs)
             rest == Children(Tail(cs))
         IN  CASE c.t \in {"undefined", "null", "false", "true"} -> rest
               [] c.t = "string" -> IF c.s = <<>> THEN rest ELSE <<Text(c.s)>> \o rest
               [] c.t = "array" -> Children(c.s) \o rest
               [] OTHER -> <<c>> \o rest

El(tag, prop, s, kids) ==
    [t |-> "element", s |-> s, tag |-> tag, prop |-> prop, kids |-> Children(kids)]

\* breadcrumbs.length > 0
NonEmptyList(v) == IF Len(v.s) > 0 THEN True ELSE False

\* the panel emitted for every list, the empty one too
BreadcrumbPanelAnyList(p) ==
    And(p.breadcrumbs,
        El("Paper", "xs", <<>>,
           <<El("BreadcrumbList", "", p.breadcrumbs.s, <<>>)>>))

\* {breadcrumbs && breadcrumbs.length > 0 && (<Paper>...</Paper>)}
BreadcrumbPanel(p) ==
    And(And(p.breadcrumbs, NonEmptyList(p.breadcrumbs)),
        El("Paper", "xs", <<>>,
           <<El("BreadcrumbList", "", p.breadcrumbs.s, <<>>)>>))

\* the actions row left out for an empty list of actions
MainPanelNoEmptyRow(p) ==
    El("Paper", "xs", <<>>,
       <<El("Stack", "xs", <<>>,
            <<El("Group", "apart", <<>>,
                 <<El("Group", "left", <<>>,
                      <<And(p.imageUrl, El("ApiImage", "sm", p.imageUrl.s, <<>>)),
                        El("Stack", "xs", <<>>,
                           <<And(p.title, El("StylishText", "lg", <<>>, <<p.title>>)),
                             And(p.subtitle, El("Text", "md", <<>>, <<p.subtitle>>))>>)>>),
                   El("Space", "", <<>>, <<>>),
                   p.detail,
                   El("Space", "", <<>>, <<>>),
                   And(And(p.actions, NonEmptyList(p.actions)),
                       El("Group", "right", <<>>, <<p.actions>>))>>)>>)>>)

\* the second <Paper>
MainPanel(p) ==
    El("Paper", "xs", <<>>,
       <<El("Stack", "xs", <<>>,
            <<El("Group", "apart", <<>>,
                 <<El("Group", "left", <<>>,
                      <<And(p.imageUrl, El("ApiImage", "sm", p.imageUrl.s, <<>>)),
                        El("Stack", "xs", <<>>,
                           <<And(p.title, El("StylishText", "lg", <<>>, <<p.title>>)),
                             And(p.subtitle, El("Text", "md", <<>>, <<p.subtitle>>))>>)>>),
                   El("Space", "", <<>>, <<>>),
                   p.detail,
                   El("Space", "", <<>>, <<>>),
                   And(p.actions, El("Group", "right", <<>>, <<p.actions>>))>>)>>)>>)

PageDetail(p) == El("Stack", "xs", <<>>, <<BreadcrumbPanel(p), MainPanel(p)>>)

Crumb == [t |-> "object", s |-> <<>>]
ActionNode == El("Action", "", <<>>, <<>>)
DetailNode == El("Detail", "", <<>>, <<>>)

ListsOf(item, n) == {Arr([i \in 1..k |-> item]) : k \in 0..n}

TextProps == {Undefined, Str(<<>>), Str(<<"a">>)}

HeaderSpecs ==
    [title : TextProps, subtitle : TextProps, imageUrl : TextProps,
     detail : {Undefined, Null, False, Str(<<>>), Str(<<"a">>), DetailNode},
     breadcrumbs : {Undefined} \cup ListsOf(Crumb, MaxCrumbs),
     actions : {Undefined} \cup ListsOf(ActionNode, MaxActions)]

-----------------------------------------------------------------------------
(* Calls of the renderers *)

\* the caller's bookkeeping around a call: one call less to make, and the
\* first call on the record is remembered
Returned(f, r) ==
    /\ left > 0
    /\ left' = left - 1
    /\ fn' = f
    /\ ret' = r
    /\ first' = IF first.fn = "none" THEN [fn |-> f, ret |-> r] ELSE first
    /\ UNCHANGED <<arg, props, out>>

CallRenderCompany ==
    \E n \in Names, p \in Parameters, o \in Options :
        /\ Returned("renderCompany", renderCompany(n, data, p, o))
        /\ data' = data

CallRenderStockItem ==
    \E n \in Names, p \in Parameters, o \in Options :
        /\ Returned("renderStockItem", renderStockItem(n, data, p, o))
        /\ data' = data

CallRenderStockLocation ==
    \E n \in Names, p \in Parameters, o \in Options :
        /\ Returned("renderStockLocation", renderStockLocation(n, data, p, o))
        /\ data' = data

\* `data.image = placeholder`: the default written into the caller's record
CallRenderPartStoresImage ==
    \E n \in Names, p \in Parameters, o \in Options :
        /\ Returned("renderPart", renderPart(n, data, p, o))
        /\ data' = IF ~Truthy(data.image)
                   THEN [data EXCEPT !.image = Str(BlankImage)]
                   ELSE data

CallRenderPart ==
    \E n \in Names, p \in Parameters, o \in Options :
        /\ Returned("renderPart", renderPart(n, data, p, o))
        /\ data' = data

CallRenderPartCategory ==
    \E n \in Names, p \in Parameters, o \in Options :
        /\ Returned("renderPartCategory", renderPartCategory(n, data, p, o))
        /\ data' = data

Init ==
    /\ IsInput(data, MaxChars)
    /\ arg = data
    /\ fn = "none"
    /\ ret = Undefined
    /\ first = NoCall
    /\ left = 1
    /\ props = NoProps
    /\ out = NotRendered

Next ==
    \/ CallRenderCompany
    \/ CallRenderStockItem
    \/ CallRenderStockLocation
    \/ CallRenderPart
    \/ CallRenderPartCategory

Spec == Init /\ [][Next]_vars

\* PageDetail, rendered once from the props it is given
CallPageDetail ==
    /\ out = NotRendered
    /\ out' = PageDetail(props)
    /\ UNCHANGED <<props, data, arg, fn, ret, first, left>>

InitPage ==
    /\ props \in HeaderSpecs
    /\ out = NotRendered
    /\ data = NoRecord
    /\ arg = NoRecord
    /\ fn = "none"
    /\ ret = Undefined
    /\ first = NoCall
    /\ left = 0

NextPage == CallPageDetail

SpecPage == InitPage /\ [][NextPage]_vars

\* the same calls, made repeatedly on one record
InitPure ==
    /\ IsPureInput(data, MaxPureChars)
    /\ arg = data
    /\ fn = "none"
    /\ ret = Undefined
    /\ first = NoCall
    /\ left = MaxCalls
    /\ props = NoProps
    /\ out = NotRendered

SpecPure == InitPure /\ [][Next]_vars

-----------------------------------------------------------------------------
(* Reading the outputs *)

\* a field that is provided: neither missing nor null
Present(v) == v.t \notin {"undefined", "null"}

\* a string field holding at least one character
NonEmpty(v) == v.t = "string" /\ Len(v.s) > 0

\* the elements of a tree that satisfy a test on component and props
RECURSIVE CountEl(_, _, _)
CountIn(ns, tag, prop) ==
    LET RECURSIVE Sum(_)
        Sum(i) == IF i = 0 THEN 0 ELSE CountEl(ns[i], tag, prop) + Sum(i - 1)
    IN  Sum(Len(ns))
CountEl(n, tag, prop) ==
    (IF n.tag = tag /\ n.prop = prop THEN 1 ELSE 0) + CountIn(n.kids, tag, prop)

IsCrumbPanel(n) ==
    n.tag = "Paper" /\ Len(n.kids) = 1 /\ n.kids[1].tag = "BreadcrumbList"
IsMainPanel(n) ==
    n.tag = "Paper" /\ Len(n.kids) = 1 /\ n.kids[1].tag = "Stack"

Rendered == out /= NotRendered
CrumbPanels == CountEl(out, "BreadcrumbList", "")
Panels == CountEl(out, "Paper", "xs")

\* the row of the main panel: left group, space, detail, space, actions
MainRow == out.kids[Len(out.kids)].kids[1].kids[1]
ImageEmitted == CountEl(out, "ApiImage", "sm") = 1
TitleEmitted == CountEl(out, "StylishText", "lg") = 1
SubtitleEmitted == CountEl(out, "Text", "md") = 1
DetailEmitted == Len(MainRow.kids) >= 4 /\ MainRow.kids[3].tag /= "Space"
ActionsEmitted == CountEl(out, "Group", "right") = 1

-----------------------------------------------------------------------------
(* Claims: PageDetail *)

\* C1: the breadcrumb panel is part of the output if and only if
\* breadcrumbs is provided and has length > 0; when emitted it is emitted
\* exactly once and comes before the main panel.
C1_BreadcrumbPanel ==
    Rendered =>
        /\ CrumbPanels \in {0, 1}
        /\ CrumbPanels = 1 <=> (Present(props.breadcrumbs) /\ Len(props.breadcrumbs.s) > 0)
        /\ CrumbPanels = 1 =>
              /\ Len(out.kids) = 2
              /\ IsCrumbPanel(out.kids[1])
              /\ IsMainPanel(out.kids[2])
              /\ out.kids[1].kids[1].s = props.breadcrumbs.s
        /\ CrumbPanels = 0 => Len(out.kids) = 1 /\ IsMainPanel(out.kids[1])

C1_Witness ==
    /\ Rendered
    /\ Len(props.breadcrumbs.s) = 2
    /\ CrumbPanels = 1
    /\ Present(props.actions)
    /\ NonEmpty(props.title)

\* C2 as stated: exactly one main panel, and each of the five sub-fragments
\* is emitted if and only if its field is set.
C2_EmittedIffSet ==
    Rendered =>
        /\ Panels - CrumbPanels = 1
        /\ IsMainPanel(out.kids[Len(out.kids)])
        /\ ImageEmitted <=> Present(props.imageUrl)
        /\ TitleEmitted <=> Present(props.title)
        /\ SubtitleEmitted <=> Present(props.subtitle)
        /\ DetailEmitted <=> Present(props.detail)
        /\ ActionsEmitted <=> Present(props.actions)

\* C2 amended: exactly one main panel; image, title and subtitle are each
\* emitted if and only if the field is a non-empty string, the detail if and
\* only if it is a node that renders (not undefined, null, false or the
\* empty string), the actions row if and only if actions is set (an empty
\* list gives an empty row); each independently of the other fields.
C2_EmittedIffTruthy ==
    Rendered =>
        /\ Panels - CrumbPanels = 1
        /\ IsMainPanel(out.kids[Len(out.kids)])
        /\ Len(MainRow.kids) \in 3..5
        /\ CountEl(out, "ApiImage", "sm") \in {0, 1}
        /\ CountEl(out, "StylishText", "lg") \in {0, 1}
        /\ CountEl(out, "Text", "md") \in {0, 1}
        /\ CountEl(out, "Group", "right") \in {0, 1}
        /\ ImageEmitted <=> NonEmpty(props.imageUrl)
        /\ TitleEmitted <=> NonEmpty(props.title)
        /\ SubtitleEmitted <=> NonEmpty(props.subtitle)
        /\ DetailEmitted <=> (NonEmpty(props.detail) \/ props.detail = DetailNode)
        /\ ActionsEmitted <=> Present(props.actions)

\* every optional field absent: the main panel alone
C2_Witness ==
    /\ Rendered
    /\ props = NoProps
    /\ Len(out.kids) = 1
    /\ ~ImageEmitted /\ ~TitleEmitted /\ ~SubtitleEmitted
    /\ ~DetailEmitted /\ ~ActionsEmitted

-----------------------------------------------------------------------------
(* Claims: the renderers *)

IsPrefix(pre, str) == Len(pre) <= Len(str) /\ SubSeq(str, 1, Len(pre)) = pre

Contains(str, sub) ==
    \E i \in 0..(Len(str) - Len(sub)) : SubSeq(str, i + 1, i + Len(sub)) = sub

NameFrag(chars) == SpanOpen \o chars \o SpanClose
DescFrag(chars) == Dash \o ItalicOpen \o chars \o ItalicClose
PathFrag(chars) == PathOpen \o chars \o PathClose
ImgFrag(src) == ImgOpen \o src \o ImgClose

RecordRenderers ==
    {"renderCompany", "renderStockLocation", "renderPartCategory", "renderPart"}

\* the renderer of that name, applied
ResultOf(f, n, d, p, o) ==
    CASE f = "renderCompany" -> renderCompany(n, d, p, o)
      [] f = "renderStockItem" -> renderStockItem(n, d, p, o)
      [] f = "renderStockLocation" -> renderStockLocation(n, d, p, o)
      [] f = "renderPart" -> renderPart(n, d, p, o)
      [] f = "renderPartCategory" -> renderPartCategory(n, d, p, o)

\* the characters that open or close a tag or an attribute value
TagChars == {"<", ">", "'", "\""}
IsTagChar(c) == c \in TagChars
Markup(str) == SelectSeq(str, IsTagChar)

\* the same record with every tag character of its values made plain text
Neutral(d) ==
    [f \in FieldNames |->
        IF d[f].t = "string"
        THEN Str([i \in 1..Len(d[f].s) |->
                    IF d[f].s[i] \in TagChars THEN "a" ELSE d[f].s[i]])
        ELSE d[f]]

\* C3: every record renderer produces an HTML-safe string: no field value
\* introduces a tag or an attribute, so the tag and attribute delimiters of
\* the output are those of the renderer's own fixed tags.
C3_HtmlSafe ==
    fn \in RecordRenderers =>
        /\ ret.t = "string"
        /\ Markup(ret.s) = Markup(ResultOf(fn, "part", Neutral(data), Undefined, Undefined).s)

UndefinedText == <<"u","n","d","e","f","i","n","e","d">>

\* C4: the renderers tolerate absent fields: the call returns a string and an
\* absent field contributes no sub-fragment, neither its tags nor a textual
\* rendering of the missing value.
C4_AbsentOmitted ==
    fn \in RecordRenderers =>
        /\ ret.t = "string"
        /\ ~Contains(ret.s, UndefinedText)
        /\ data.description = Undefined => ~Contains(ret.s, ItalicOpen)
        /\ (data.pathstring = Undefined /\ fn /= "renderPart")
              => ~Contains(ret.s, PathOpen)
        /\ (data.name = Undefined /\ (fn = "renderPart" => data.full_name = Undefined))
              => ~Contains(ret.s, SpanOpen)

\* C5: the name shown by renderPart is full_name whenever full_name is
\* present, whatever its value and whatever name holds, and is name exactly
\* when full_name is absent.
C5_FullNamePrecedence ==
    fn = "renderPart" =>
        LET shown == IF Present(data.full_name) THEN data.full_name ELSE data.name
        IN  Present(shown) =>
              \E src \in {ToString(data.image), BlankImage} :
                  IsPrefix(ImgFrag(src) \o Space1 \o NameFrag(shown.s), ret.s)

C5_Witness ==
    /\ fn = "renderPart"
    /\ data.full_name = Str(<<>>)
    /\ NonEmpty(data.name)
    /\ Contains(ret.s, NameFrag(<<>>))

\* C6 as stated: the output of renderPart begins with the img tag whose src
\* is the record's image when image is present and the placeholder exactly
\* when it is not; the img tag precedes the name.
C6_ImageIffPresent ==
    fn = "renderPart" =>
        LET src == IF Present(data.image) THEN data.image.s ELSE BlankImage
        IN  IsPrefix(ImgFrag(src) \o Space1 \o SpanOpen, ret.s)

\* C6 amended: the output of renderPart begins with the renderer's img
\* fragment, whose src is the record's image when image is a non-empty
\* string and the placeholder exactly when image is absent, null or empty;
\* the fragment precedes the name and the description.
C6_ImageIffNonEmpty ==
    fn = "renderPart" =>
        LET src == IF NonEmpty(data.image) THEN data.image.s ELSE BlankImage
        IN  /\ IsPrefix(ImgFrag(src) \o Space1 \o SpanOpen, ret.s)
            /\ NonEmpty(data.image) => ~IsPrefix(ImgFrag(BlankImage), ret.s)
            /\ NonEmpty(data.description) =>
                  Contains(SubSeq(ret.s, Len(ImgFrag(src)) + 1, Len(ret.s)),
                           DescFrag(data.description.s))

C6_Witness ==
    /\ fn = "renderPart"
    /\ data.image = Str(<<>>)
    /\ NonEmpty(data.name)
    /\ IsPrefix(ImgFrag(BlankImage), ret.s)

\* C7 as stated: for a StockLocation record (a record with a name),
\* renderStockLocation outputs the name, then the description fragment if
\* and only if description is present, then the pathstring line if and only
\* if pathstring is present.
C7_FragmentsIffPresent ==
    (fn = "renderStockLocation" /\ data.name.t = "string") =>
        ret.s = NameFrag(data.name.s)
                \o (IF Present(data.description)
                    THEN DescFrag(data.description.s) ELSE <<>>)
                \o (IF Present(data.pathstring)
                    THEN PathFrag(data.pathstring.s) ELSE <<>>)

\* C7 amended: for a StockLocation record (a record with a name),
\* renderStockLocation outputs the name, then the description fragment if
\* and only if description is a non-empty string, then the pathstring line
\* if and only if pathstring is a non-empty string; the two are independent
\* and the description comes first.
C7_FragmentsIffNonEmpty ==
    (fn = "renderStockLocation" /\ data.name.t = "string") =>
        ret.s = NameFrag(data.name.s)
                \o (IF NonEmpty(data.description)
                    THEN DescFrag(data.description.s) ELSE <<>>)
                \o (IF NonEmpty(data.pathstring)
                    THEN PathFrag(data.pathstring.s) ELSE <<>>)

C7_Witness ==
    /\ fn = "renderStockLocation"
    /\ data.name.t = "string"
    /\ NonEmpty(data.description)
    /\ NonEmpty(data.pathstring)
    /\ Contains(ret.s, ItalicClose \o PathOpen)

\* C8: renderPartCategory and renderStockLocation return the identical
\* string for every record and every name, parameters and options.
C8_SameFunction ==
    fn \in {"renderStockLocation", "renderPartCategory"} =>
        \A n \in Names, p \in Parameters, o \in Options :
            /\ renderPartCategory(n, data, p, o) = ret
            /\ renderStockLocation(n, data, p, o) = ret

C8_Witness ==
    /\ fn = "renderPartCategory"
    /\ NonEmpty(data.description)
    /\ NonEmpty(data.pathstring)
    /\ Contains(ret.s, PathFrag(data.pathstring.s))

\* C9: renderStockItem returns no content, whatever the record holds.
C9_StockItemEmpty ==
    fn = "renderStockItem" => ret = Undefined /\ ret.s = <<>>

C9_Witness ==
    /\ fn = "renderStockItem"
    /\ NonEmpty(data.image)
    /\ NonEmpty(data.name)
    /\ ret = Undefined

\* C10: the renderers are pure functions of the record: a call leaves the
\* record as the caller built it, a call repeated after any other calls
\* returns what it returned first, and the result does not depend on the
\* name, parameters and options arguments.
C10_Pure ==
    /\ data = arg
    /\ (fn /= "none" /\ first.fn = fn) => ret = first.ret
    /\ fn /= "none" =>
          \A n \in Names, p \in Parameters, o \in Options :
              ResultOf(fn, n, arg, p, o) = ret

C10_Witness ==
    /\ left = 0
    /\ fn = "renderPart"
    /\ first.fn = "renderPart"
    /\ ~Truthy(data.image)
    /\ NonEmpty(data.name)

====
